---- MODULE Spec2Model ----
(***************************************************************************)
(* QuickBooks API relay (src/main.py): one module-level OAuth session      *)
(* dict, mirrored in the file oauth_session.json, and FastAPI handlers     *)
(* that exchange / refresh tokens and forward calls with a bearer header.  *)
(* The handlers are plain `def` functions: the server runs each request on *)
(* a worker thread, so handlers interleave statement by statement on the   *)
(* module globals and on the file.                                         *)
(***************************************************************************)
EXTENDS Integers, Sequences, FiniteSets, Bags, TLC

VARIABLES
    running,             \* the process got through its import (init_db() at line 35)
    oauth_session,       \* main.py:23   module global dict
    oauth_session_json,  \* the file "oauth_session.json": text written and size
    current_company,     \* main.py:17   module global
    headers,             \* main.py:18   module global dict
    inflight,            \* the requests being handled: a bag of handler frames
    last,                \* the request that finished last: inputs, answer, calls
    arrived,             \* number of requests received so far
    restarts,            \* number of times the process was started again
    cb_token             \* access_token of the latest /callback that succeeded
                         \* in this process, until a refresh replaces tokens

vars == <<running, oauth_session, oauth_session_json, current_company, headers,
          inflight, last, arrived, restarts, cb_token>>

-----------------------------------------------------------------------------
(* Bounds *)

\* number of distinct complete token responses the provider hands out
NumTokens == 2
\* number of requests handled at the same time
MaxInFlight == 2
\* number of requests received in a run of the model
MaxRequests == 3
\* number of times the process is stopped and started again
MaxRestarts == 1

-----------------------------------------------------------------------------
(* Python values and dicts *)

PyNone == <<"None">>
PyStr(s) == <<"str", s>>
PyInt(n) == <<"int", n>>

\* a dict is the sequence of its <<key, value>> items, in insertion order
EmptyDict == <<>>

dict_keys(d) == {d[i][1] : i \in 1..Len(d)}

\* k in d
dict_has(d, k) == k \in dict_keys(d)

\* d.get(k)
dict_get(d, k) ==
    IF dict_has(d, k) THEN d[CHOOSE i \in 1..Len(d) : d[i][1] = k][2] ELSE PyNone

\* d[k] = v   /   d.update({k: v}): a key the dict has keeps its place, a
\* new key goes to the end
dict_set(d, k, v) ==
    IF dict_has(d, k)
    THEN [i \in 1..Len(d) |-> IF d[i][1] = k THEN <<k, v>> ELSE d[i]]
    ELSE Append(d, <<k, v>>)

\* truth value of a dict: `if oauth_session:`
dict_truthy(d) == Len(d) > 0

\* `not v` for None and strings
Falsy(v) == v = PyNone \/ v = PyStr("")

\* str(v), as an f-string formats it
py_format(v) ==
    IF v = PyNone THEN "None"
    ELSE IF v[1] = "int" THEN ToString(v[2])
    ELSE v[2]

-----------------------------------------------------------------------------
(* json.dump / json.load of a flat dict, and the file they go through *)

json_encode(v) ==
    IF v = PyNone THEN <<"null">>
    ELSE IF v[1] = "int" THEN <<"number", v[2]>>
    ELSE <<"string", v[2]>>

json_decode(j) ==
    IF j[1] = "null" THEN PyNone
    ELSE IF j[1] = "number" THEN PyInt(j[2])
    ELSE PyStr(j[2])

\* the text json.dump has produced so far: whether "{" is written, the
\* members written, in order, and whether "}" is written
EmptyText == [started |-> FALSE, members |-> <<>>, closed |-> FALSE]

\* "key": value
json_member(item) == <<item[1], json_encode(item[2])>>

\* the whole text json.dump produces for a dict nobody changes meanwhile
json_dump(d) ==
    [started |-> TRUE,
     members |-> IF d = <<>> THEN <<>> ELSE [i \in 1..Len(d) |-> json_member(d[i])],
     closed |-> TRUE]

\* the number of characters of a JSON value as json.dump writes it
json_value_len(j) ==
    IF j[1] = "null" THEN 4
    ELSE IF j[1] = "number" THEN Len(ToString(j[2]))
    ELSE Len(j[2]) + 2

RECURSIVE json_members_len(_)
json_members_len(ms) ==
    IF ms = <<>> THEN 0
    ELSE Len(ms[1][1]) + 4 + json_value_len(ms[1][2]) + json_members_len(Tail(ms))

\* the number of characters of the text: {"k": v, "k": v}
json_len(text) ==
    (IF text.started THEN 1 ELSE 0)
    + json_members_len(text.members)
    + (IF Len(text.members) > 1 THEN 2 * (Len(text.members) - 1) ELSE 0)
    + (IF text.closed THEN 1 ELSE 0)

\* a file that holds exactly the text
FileOf(text) == [text |-> text, size |-> json_len(text)]

\* open(..., "w"): the file is cut to 0 bytes
Truncated == [text |-> EmptyText, size |-> 0]

\* close() of a handle opened with "w": the buffered text goes to offset 0 of
\* the file as it is then; what the file holds beyond it stays
file_write(file, text) ==
    [text |-> text,
     size |-> IF json_len(text) >= file.size THEN json_len(text) ELSE file.size]

\* json.load accepts the file only if it holds one whole document and
\* nothing else
file_is_json(file) == file.text.closed /\ file.size = json_len(file.text)

json_load(file) ==
    IF file.text.members = <<>> THEN EmptyDict
    ELSE [i \in 1..Len(file.text.members) |->
            <<file.text.members[i][1], json_decode(file.text.members[i][2])>>]

\* open() of a file that does not exist
NoFile == [errno |-> "FileNotFoundError"]

-----------------------------------------------------------------------------
(* The provider's token endpoint, as seen through intuitlib's AuthClient *)

TokenResponse(i) ==
    [ok |-> TRUE,
     access_token  |-> PyStr("A" \o ToString(i)),
     refresh_token |-> PyStr("R" \o ToString(i)),
     expires_in    |-> PyInt(3600 * i)]

\* the call raised (AuthClientError, transport error)
TokenFailure ==
    [ok |-> FALSE, access_token |-> PyNone, refresh_token |-> PyNone,
     expires_in |-> PyNone]

TokenOutcomes == {TokenResponse(i) : i \in 1..NumTokens} \cup {TokenFailure}

\* a handler that has not talked to the token endpoint
NoToken == TokenFailure

-----------------------------------------------------------------------------
(* The upstream QuickBooks API, as seen through requests *)

HTTP_OK == 200

\* kind "exc": requests raised; otherwise a status code and, for 200, the
\* shape of the JSON body
UpstreamOutcomes ==
    { [kind |-> "exc", status |-> 0, body |-> "none"],
      [kind |-> "http", status |-> HTTP_OK, body |-> "full"],
      [kind |-> "http", status |-> HTTP_OK, body |-> "malformed"],
      [kind |-> "http", status |-> 500, body |-> "none"] }

\* requests.get / requests.post with headers=headers: the module's dict is
\* read when the request is sent
ApiCall(hdrs) == [target |-> "api", authorization |-> dict_get(hdrs, "Authorization")]

\* auth_client.refresh / auth_client.get_bearer_token: a call to the token
\* endpoint, authorized by the client's own credentials
TokenCall == [target |-> "token", authorization |-> "client credentials"]

-----------------------------------------------------------------------------
(* main.py: what each statement computes *)

InitialHeaders ==
    << <<"Accept", "application/json">>, <<"Content-Type", "application/json">> >>

\* init_db(), lines 25-35: the session loaded and the file left on disk; a
\* file json.load rejects ends the import with JSONDecodeError
init_db(disk) ==
    IF disk = NoFile
    THEN [ok |-> TRUE, session |-> EmptyDict, file |-> FileOf(json_dump(EmptyDict))]
    ELSE IF file_is_json(disk)
    THEN [ok |-> TRUE, session |-> json_load(disk), file |-> disk]
    ELSE [ok |-> FALSE, session |-> EmptyDict, file |-> disk]

\* f"Bearer {oauth_session.get('access_token')}"
bearer(session) == "Bearer " \o py_format(dict_get(session, "access_token"))

\* line 70: if oauth_session
root_guard(session) == dict_truthy(session)

\* set_current_company(), lines 133-144: the value it returns
company_name(up) ==
    IF up.kind = "http" /\ up.status = HTTP_OK /\ up.body = "full"
    THEN PyStr("Acme")
    ELSE PyNone

\* line 73: if not current_company
root_needs_refresh(company) == Falsy(company)

\* line 54 without its test
refresh_allowed_always(session) == TRUE

\* line 54: if 'refresh_token' in oauth_session
refresh_allowed(session) == dict_has(session, "refresh_token")

\* line 77: current_company if current_company else ... (the test)
root_company_known(company) == ~Falsy(company)

\* lines 75-78: the body, given the value chosen for "Company"
WelcomeBody(company) ==
    [message |-> "Welcome to QuickBooks API", Company |-> company]

\* an exception that leaves a handler: the framework answers 500
InternalServerError == [error |-> "Internal Server Error"]

\* line 106 with `and` for `or`
callback_rejects_and(code, state) == Falsy(code) /\ Falsy(state)

\* line 106: if not code or not state
callback_rejects(code, state) == Falsy(code) \/ Falsy(state)

\* the dict callback() builds at lines 111-117
callback_record(state, realm_id, tok) ==
    << <<"state", state>>,
       <<"access_token", tok.access_token>>,
       <<"refresh_token", tok.refresh_token>>,
       <<"realm_id", realm_id>>,
       <<"token_expiry", tok.expires_in>> >>

NotAuthenticated == [error |-> "Not authenticated"]

\* lines 151, 182, 208 without their test
relay_rejects_never(session) == FALSE

\* lines 151, 182, 208: if not oauth_session
relay_rejects(session) == ~dict_truthy(session)

RelayOps == {"customers", "invoices/create", "transactions"}

\* the error text each relay handler gives for a non-200 answer
relay_fail_text(op) ==
    CASE op = "customers" -> "Failed to fetch customers"
      [] op = "invoices/create" -> "Failed to create invoice"
      [] op = "transactions" -> "Failed to fetch transactions"

\* lines 167-175, 195-201, 220-226: what the handler returns for an answer
relay_response(op, up) ==
    IF up.kind = "exc" THEN [error |-> "RequestException"]
    ELSE IF up.status = HTTP_OK
    THEN IF up.body = "malformed"
         THEN [error |-> "response.json() failed"]
         ELSE [payload |-> IF op = "customers" THEN "Customer" ELSE "response.json()"]
    ELSE [error |-> relay_fail_text(op), status_code |-> up.status]

-----------------------------------------------------------------------------
(* Requests *)

NoArgs == [code |-> PyNone, state |-> PyNone, realm_id |-> PyNone]

NoCallback == <<"no callback">>

\* query parameters a caller can send; PyNone is a parameter left out
QueryCodes == {PyNone, PyStr("abc")}
QueryStates == {PyStr(""), PyStr("xyz")}
QueryRealms == {PyNone, PyStr("123")}

CallbackArgs == [code : QueryCodes, state : QueryStates, realm_id : QueryRealms]

Ops == {"root", "callback"} \cup RelayOps

\* the first statement of each handler
FirstPc(op) ==
    CASE op = "root" -> "root:70"
      [] op = "callback" -> "callback:106"
      [] OTHER -> "relay:guard"

\* the frame of a handler about to run its first statement
Frame(op, args) ==
    [pc |-> FirstPc(op), op |-> op, args |-> args, tok |-> NoToken,
     auth |-> "", calls |-> <<>>,
     seen_cb |-> IF op \in RelayOps THEN cb_token ELSE NoCallback,
     buf |-> EmptyText, company |-> PyNone]

\* the endpoints a handler called, in order
Targets(calls) == [i \in 1..Len(calls) |-> calls[i].target]

\* what is kept of a handler that returned resp, or let `raised` escape,
\* after an upstream answer of the given status (0: none)
Result(f, resp, raised, status) ==
    [op |-> f.op, resp |-> resp, raised |-> raised, calls |-> Targets(f.calls),
     status |-> status]

Started ==
    [op |-> "start", resp |-> [message |-> "started"], raised |-> "",
     calls |-> <<>>, status |-> 0]

Frames == BagToSet(inflight)

\* frame f runs one statement and becomes g
Step(f, g) ==
    /\ inflight' = (inflight (-) SetToBag({f})) (+) SetToBag({g})
    /\ UNCHANGED <<running, last, arrived, restarts>>

\* frame f runs its last statement
Return(f, resp, raised, status) ==
    /\ inflight' = inflight (-) SetToBag({f})
    /\ last' = Result(f, resp, raised, status)
    /\ UNCHANGED <<running, arrived, restarts>>

\* what oauth_session.json holds when the process starts: no file, "{}", or
\* a Session record, whole or without one of its tokens
SampleRecord == callback_record(PyStr("old"), PyStr("991234"), TokenResponse(0))

InitDisks ==
    {NoFile} \cup
    { FileOf(json_dump(SelectSeq(SampleRecord, LAMBDA item : item[1] \in K))) :
        K \in { {}, dict_keys(SampleRecord), dict_keys(SampleRecord) \ {"access_token"},
                dict_keys(SampleRecord) \ {"refresh_token"} } }

\* the import of main.py, lines 13-35
Start(disk) ==
    LET db == init_db(disk)
    IN  /\ running = db.ok
        /\ oauth_session = db.session
        /\ oauth_session_json = db.file
        /\ current_company = PyNone
        /\ headers = InitialHeaders
        /\ inflight = EmptyBag
        /\ last = Started
        /\ arrived = 0
        /\ restarts = 0
        /\ cb_token = NoCallback

Init == \E disk \in InitDisks : Start(disk)

-----------------------------------------------------------------------------
(* The process and its handlers, one statement at a time *)

\* the process is stopped, whatever it was doing, and started again: the
\* module globals are rebuilt and init_db() reads the file as it was left
Restart ==
    LET db == init_db(oauth_session_json)
    IN  /\ restarts < MaxRestarts
        /\ restarts' = restarts + 1
        /\ UNCHANGED arrived
        /\ running' = db.ok
        /\ oauth_session' = db.session
        /\ oauth_session_json' = db.file
        /\ current_company' = PyNone
        /\ headers' = InitialHeaders
        /\ inflight' = EmptyBag
        /\ last' = IF db.ok THEN Started
                   ELSE [Started EXCEPT !.raised = "JSONDecodeError"]
        /\ cb_token' = NoCallback

\* a request arrives and is given to a worker thread
Arrive ==
    /\ running
    /\ BagCardinality(inflight) < MaxInFlight
    /\ arrived < MaxRequests
    /\ arrived' = arrived + 1
    /\ UNCHANGED restarts
    /\ \E op \in Ops :
        \E args \in IF op = "callback" THEN CallbackArgs ELSE {NoArgs} :
            inflight' = inflight (+) SetToBag({Frame(op, args)})
    /\ UNCHANGED <<running, oauth_session, oauth_session_json, current_company,
                   headers, last, cb_token>>

\* main.py:70  if oauth_session
RootGuard ==
    \E f \in Frames :
        /\ f.pc = "root:70"
        /\ Step(f, [f EXCEPT !.pc = IF root_guard(oauth_session) THEN "bearer"
                                    ELSE "root:75"])
        /\ UNCHANGED <<oauth_session, oauth_session_json, current_company,
                       headers, cb_token>>

\* main.py:130, 155, 186, 212  the f-string is built from the Session
BuildBearer ==
    \E f \in Frames :
        /\ f.pc = "bearer"
        /\ Step(f, [f EXCEPT !.pc = "update", !.auth = bearer(oauth_session)])
        /\ UNCHANGED <<oauth_session, oauth_session_json, current_company,
                       headers, cb_token>>

\* main.py:129, 154, 185, 211  headers.update({"Authorization": ...})
UpdateHeaders ==
    \E f \in Frames :
        /\ f.pc = "update"
        /\ headers' = dict_set(headers, "Authorization", f.auth)
        /\ Step(f, [f EXCEPT !.pc = "send"])
        /\ UNCHANGED <<oauth_session, oauth_session_json, current_company, cb_token>>

\* main.py:132-137, 157-166, 188-194, 214-219  the request goes out with the
\* module's headers dict as it is now; the thread waits for the answer
\* (realm_id, read from the Session for the URL, is never written by a handler)
Send ==
    \E f \in Frames :
        /\ f.pc = "send"
        /\ Step(f, [f EXCEPT !.pc = "recv",
                             !.calls = Append(@, ApiCall(headers))])
        /\ UNCHANGED <<oauth_session, oauth_session_json, current_company,
                       headers, cb_token>>

\* main.py:138-144 and 72  current_company = set_current_company(): the
\* value the lookup returned to this handler goes to the module global
RootReceive ==
    \E f \in Frames :
        /\ f.pc = "recv"
        /\ f.op = "root"
        /\ \E up \in UpstreamOutcomes :
              /\ current_company' = company_name(up)
              /\ Step(f, [f EXCEPT !.pc = "root:73", !.company = company_name(up)])
        /\ UNCHANGED <<oauth_session, oauth_session_json, headers, cb_token>>

\* main.py:73-74  if not current_company: refresh_token()
RootTest ==
    \E f \in Frames :
        /\ f.pc = "root:73"
        /\ Step(f, IF root_needs_refresh(current_company)
                   THEN [f EXCEPT !.pc = "refresh:54"]
                   ELSE [f EXCEPT !.pc = "root:75"])
        /\ UNCHANGED <<oauth_session, oauth_session_json, current_company,
                       headers, cb_token>>

\* main.py:54  if 'refresh_token' in oauth_session
RefreshCheck ==
    \E f \in Frames :
        /\ f.pc = "refresh:54"
        /\ refresh_allowed(oauth_session)
        /\ Step(f, [f EXCEPT !.pc = "refresh:56"])
        /\ UNCHANGED <<oauth_session, oauth_session_json, current_company,
                       headers, cb_token>>

\* main.py:62-63  raise Exception("No refresh token available"); root() does
\* not catch it
RefreshRaise ==
    \E f \in Frames :
        /\ f.pc = "refresh:54"
        /\ ~refresh_allowed(oauth_session)
        /\ Return(f, InternalServerError, "No refresh token available", 0)
        /\ UNCHANGED <<oauth_session, oauth_session_json, current_company,
                       headers, cb_token>>

\* main.py:55-56  auth_client.refresh(...): the request goes to the token
\* endpoint and the thread waits for the answer
RefreshCall ==
    \E f \in Frames :
        /\ f.pc = "refresh:56"
        /\ Step(f, [f EXCEPT !.pc = "refresh:56:wait",
                             !.calls = Append(@, TokenCall)])
        /\ UNCHANGED <<oauth_session, oauth_session_json, current_company,
                       headers, cb_token>>

\* main.py:56  the answer arrives: it stays in the thread's own auth_client;
\* a failure raises through refresh_token() and root()
RefreshAnswer ==
    \E f \in Frames :
        /\ f.pc = "refresh:56:wait"
        /\ \E tok \in TokenOutcomes :
              IF tok.ok
              THEN Step(f, [f EXCEPT !.pc = "refresh:57", !.tok = tok])
              ELSE Return(f, InternalServerError, "AuthClientError", 0)
        /\ UNCHANGED <<oauth_session, oauth_session_json, current_company,
                       headers, cb_token>>

\* main.py:57  oauth_session['access_token'] = auth_client.access_token
RefreshSetAccess ==
    \E f \in Frames :
        /\ f.pc = "refresh:57"
        /\ oauth_session' = dict_set(oauth_session, "access_token", f.tok.access_token)
        /\ cb_token' = NoCallback
        /\ Step(f, [f EXCEPT !.pc = "refresh:58"])
        /\ UNCHANGED <<oauth_session_json, current_company, headers>>

\* main.py:58  oauth_session['refresh_token'] = auth_client.refresh_token
RefreshSetRefresh ==
    \E f \in Frames :
        /\ f.pc = "refresh:58"
        /\ oauth_session' = dict_set(oauth_session, "refresh_token", f.tok.refresh_token)
        /\ Step(f, [f EXCEPT !.pc = "refresh:59"])
        /\ UNCHANGED <<oauth_session_json, current_company, headers, cb_token>>

\* main.py:59  oauth_session['token_expiry'] = auth_client.expires_in
RefreshSetExpiry ==
    \E f \in Frames :
        /\ f.pc = "refresh:59"
        /\ oauth_session' = dict_set(oauth_session, "token_expiry", f.tok.expires_in)
        /\ Step(f, [f EXCEPT !.pc = "refresh:60"])
        /\ UNCHANGED <<oauth_session_json, current_company, headers, cb_token>>

\* main.py:60  open("oauth_session.json", "w")
RefreshOpen ==
    \E f \in Frames :
        /\ f.pc = "refresh:60"
        /\ oauth_session_json' = Truncated
        /\ Step(f, [f EXCEPT !.pc = "refresh:61"])
        /\ UNCHANGED <<oauth_session, current_company, headers, cb_token>>

\* main.py:61  json.dump(oauth_session, file) begins: "{" goes to the handle's
\* buffer and the iteration over the dict's items starts
RefreshDumpStart ==
    \E f \in Frames :
        /\ f.pc = "refresh:61"
        /\ Step(f, [f EXCEPT !.pc = "refresh:61:item",
                             !.buf = [EmptyText EXCEPT !.started = TRUE]])
        /\ UNCHANGED <<oauth_session, oauth_session_json, current_company,
                       headers, cb_token>>

\* main.py:61  json.dump takes the next item of the dict as it is now and
\* writes it to the buffer (the dict has all its keys since line 59 of the
\* first refresh, so it does not change size under the iteration)
RefreshDumpItem ==
    \E f \in Frames :
        /\ f.pc = "refresh:61:item"
        /\ Len(f.buf.members) < Len(oauth_session)
        /\ Step(f, [f EXCEPT !.buf.members =
                        Append(@, json_member(oauth_session[Len(@) + 1]))])
        /\ UNCHANGED <<oauth_session, oauth_session_json, current_company,
                       headers, cb_token>>

\* main.py:61  no item is left: "}" goes to the buffer
RefreshDumpEnd ==
    \E f \in Frames :
        /\ f.pc = "refresh:61:item"
        /\ Len(f.buf.members) = Len(oauth_session)
        /\ Step(f, [f EXCEPT !.pc = "refresh:close", !.buf.closed = TRUE])
        /\ UNCHANGED <<oauth_session, oauth_session_json, current_company,
                       headers, cb_token>>

\* main.py:60-61  the with block ends: the buffer is written and the file closed
RefreshClose ==
    \E f \in Frames :
        /\ f.pc = "refresh:close"
        /\ oauth_session_json' = file_write(oauth_session_json, f.buf)
        /\ Step(f, [f EXCEPT !.pc = "root:75"])
        /\ UNCHANGED <<oauth_session, current_company, headers, cb_token>>

\* main.py:75-77  the test of `current_company if current_company else ...`;
\* without a company the handler returns the default text
RootChoose ==
    \E f \in Frames :
        /\ f.pc = "root:75"
        /\ IF root_company_known(current_company)
           THEN Step(f, [f EXCEPT !.pc = "root:77"])
           ELSE Return(f, WelcomeBody(PyStr("No company authenticated")), "", 0)
        /\ UNCHANGED <<oauth_session, oauth_session_json, current_company,
                       headers, cb_token>>

\* main.py:77-78  current_company is read again for the body, and returned
RootReturn ==
    \E f \in Frames :
        /\ f.pc = "root:77"
        /\ Return(f, WelcomeBody(current_company), "", 0)
        /\ UNCHANGED <<oauth_session, oauth_session_json, current_company,
                       headers, cb_token>>

\* main.py:102-107  the query parameters are read and tested
CallbackCheck ==
    \E f \in Frames :
        /\ f.pc = "callback:106"
        /\ IF callback_rejects(f.args.code, f.args.state)
           THEN Return(f, [error |-> "Missing code or state parameter"], "", 0)
           ELSE Step(f, [f EXCEPT !.pc = "callback:110"])
        /\ UNCHANGED <<oauth_session, oauth_session_json, current_company,
                       headers, cb_token>>

\* main.py:109-110  auth_client.get_bearer_token(code, realm_id=realm_id): the
\* request goes to the token endpoint and the thread waits for the answer
CallbackExchange ==
    \E f \in Frames :
        /\ f.pc = "callback:110"
        /\ Step(f, [f EXCEPT !.pc = "callback:110:wait",
                             !.calls = Append(@, TokenCall)])
        /\ UNCHANGED <<oauth_session, oauth_session_json, current_company,
                       headers, cb_token>>

\* main.py:110  the answer arrives: it stays in the thread's own auth_client;
\* a failure is caught at line 124 and returned as {"error": ...}
CallbackAnswer ==
    \E f \in Frames :
        /\ f.pc = "callback:110:wait"
        /\ \E tok \in TokenOutcomes :
              IF tok.ok
              THEN Step(f, [f EXCEPT !.pc = "callback:118", !.tok = tok])
              ELSE Return(f, [error |-> "AuthClientError"], "", 0)
        /\ UNCHANGED <<oauth_session, oauth_session_json, current_company,
                       headers, cb_token>>

\* main.py:111-118  the dict is built in a local named oauth_session, and
\* open("oauth_session.json", "w")
CallbackOpen ==
    \E f \in Frames :
        /\ f.pc = "callback:118"
        /\ oauth_session_json' = Truncated
        /\ Step(f, [f EXCEPT !.pc = "callback:119"])
        /\ UNCHANGED <<oauth_session, current_company, headers, cb_token>>

\* main.py:119-123  json.dump of the local dict, the file is closed, and the
\* handler returns
CallbackDump ==
    \E f \in Frames :
        /\ f.pc = "callback:119"
        /\ oauth_session_json' =
               file_write(oauth_session_json,
                          json_dump(callback_record(f.args.state, f.args.realm_id, f.tok)))
        /\ cb_token' = f.tok.access_token
        /\ Return(f, [message |-> "Authorization successful"], "", 0)
        /\ UNCHANGED <<oauth_session, current_company, headers>>

\* main.py:151-152, 182-183, 208-209  if not oauth_session: return ...
RelayGuard ==
    \E f \in Frames :
        /\ f.pc = "relay:guard"
        /\ IF relay_rejects(oauth_session)
           THEN Return(f, NotAuthenticated, "", 0)
           ELSE Step(f, [f EXCEPT !.pc = "bearer"])
        /\ UNCHANGED <<oauth_session, oauth_session_json, current_company,
                       headers, cb_token>>

\* main.py:167-175, 195-201, 220-226  the answer, or the exception, is turned
\* into the handler's return value
RelayReceive ==
    \E f \in Frames :
        /\ f.pc = "recv"
        /\ f.op \in RelayOps
        /\ \E up \in UpstreamOutcomes :
              Return(f, relay_response(f.op, up), "", up.status)
        /\ UNCHANGED <<oauth_session, oauth_session_json, current_company,
                       headers, cb_token>>

Next ==
    \/ Restart
    \/ Arrive
    \/ RootGuard
    \/ BuildBearer
    \/ UpdateHeaders
    \/ Send
    \/ RootReceive
    \/ RootTest
    \/ RefreshCheck
    \/ RefreshRaise
    \/ RefreshCall
    \/ RefreshAnswer
    \/ RefreshSetAccess
    \/ RefreshSetRefresh
    \/ RefreshSetExpiry
    \/ RefreshOpen
    \/ RefreshDumpStart
    \/ RefreshDumpItem
    \/ RefreshDumpEnd
    \/ RefreshClose
    \/ RootChoose
    \/ RootReturn
    \/ CallbackCheck
    \/ CallbackExchange
    \/ CallbackAnswer
    \/ CallbackOpen
    \/ CallbackDump
    \/ RelayGuard
    \/ RelayReceive

Spec == Init /\ [][Next]_vars

-----------------------------------------------------------------------------
(* Properties *)

RefreshPcs == {"refresh:54", "refresh:56", "refresh:56:wait", "refresh:57", "refresh:58", "refresh:59",
               "refresh:60", "refresh:61", "refresh:61:item", "refresh:close"}

\* this step is a statement of frame f
Moved(f) ==
    /\ restarts' = restarts
    /\ CopiesIn(f, inflight') < CopiesIn(f, inflight)

\* this step is the last statement of frame f
Returned(f) ==
    /\ Moved(f)
    /\ BagCardinality(inflight') < BagCardinality(inflight)

NoFrameChange ==
    /\ oauth_session' = oauth_session
    /\ oauth_session_json' = oauth_session_json

\* C1: a relay request that arrives after a /callback whose token exchange
\* succeeded, in the same process, is not answered 'Not authenticated' and
\* sends one call whose bearer header carries the access_token of that
\* callback (while no later callback or refresh has replaced it).
C1_RelayUsesCallbackToken ==
    [][ \A f \in Frames :
          (Returned(f) /\ f.op \in RelayOps /\ f.seen_cb # NoCallback
                       /\ cb_token = f.seen_cb) =>
              /\ last'.resp # NotAuthenticated
              /\ Len(f.calls) = 1
              /\ f.calls[1].authorization = "Bearer " \o py_format(f.seen_cb) ]_vars

\* C2: a relay handler running while the in-memory Session is empty returns
\* 'Not authenticated' at once, having sent no outbound call, and no
\* statement of a relay handler changes the Session or the persisted record.
C2_EmptySessionNotAuthenticated ==
    [][ \A f \in Frames :
          (Moved(f) /\ f.op \in RelayOps) =>
              /\ NoFrameChange
              /\ ~dict_truthy(oauth_session) =>
                    /\ Returned(f)
                    /\ last'.op = f.op
                    /\ last'.resp = NotAuthenticated
                    /\ last'.calls = <<>>
                    /\ headers' = headers ]_vars

C2_Witness ==
    /\ last.op \in RelayOps
    /\ ~dict_truthy(oauth_session)
    /\ last.resp = NotAuthenticated
    /\ last.calls = <<>>

\* C3: a /callback whose code or state is missing or empty returns 'Missing
\* code or state parameter' with its first statement, makes no token
\* exchange, and changes neither the Session nor the persisted record.
C3_CallbackMissingParameter ==
    [][ \A f \in Frames :
          (Moved(f) /\ f.op = "callback"
                    /\ (Falsy(f.args.code) \/ Falsy(f.args.state))) =>
              /\ Returned(f)
              /\ last'.op = "callback"
              /\ last'.resp = [error |-> "Missing code or state parameter"]
              /\ last'.calls = <<>>
              /\ NoFrameChange ]_vars

C3_Witness ==
    /\ last.op = "callback"
    /\ last.resp = [error |-> "Missing code or state parameter"]
    /\ last.calls = <<>>
    /\ dict_truthy(oauth_session)

\* C4: when a /callback with code, state and realmId whose token exchange
\* succeeded returns, the persisted record is exactly the five Session
\* fields taken from the request and the token response (so that a process
\* started on it loads them), and the answer is 'Authorization successful'.
C4_CallbackPersistsWholeRecord ==
    [][ \A f \in Frames :
          (Returned(f) /\ f.op = "callback" /\ f.tok.ok
                       /\ f.args.realm_id # PyNone) =>
              /\ last'.resp = [message |-> "Authorization successful"]
              /\ file_is_json(oauth_session_json')
              /\ init_db(oauth_session_json').session =
                     << <<"state", f.args.state>>,
                        <<"access_token", f.tok.access_token>>,
                        <<"refresh_token", f.tok.refresh_token>>,
                        <<"realm_id", f.args.realm_id>>,
                        <<"token_expiry", f.tok.expires_in>> >> ]_vars

\* C5: refresh_token() entered on a Session without refresh_token raises,
\* makes no call to the token endpoint, and leaves the Session and the
\* persisted record as they were.
C5_RefreshWithoutRefreshToken ==
    [][ \A f \in Frames :
          (Moved(f) /\ f.pc = "refresh:54"
                    /\ ~dict_has(oauth_session, "refresh_token")) =>
              /\ Returned(f)
              /\ last'.raised = "No refresh token available"
              /\ \A i \in 1..Len(last'.calls) : last'.calls[i] # "token"
              /\ NoFrameChange ]_vars

C5_Witness ==
    /\ last.op = "root"
    /\ last.raised = "No refresh token available"
    /\ last.calls = <<"api">>
    /\ ~dict_has(oauth_session, "refresh_token")

\* C6: GET / always completes with the {message, Company} body; no error
\* leaves the handler.
C6_RootAlwaysAnswers ==
    last.op = "root" =>
        /\ last.raised = ""
        /\ DOMAIN last.resp = {"message", "Company"}

\* C7: when a refresh_token() that got a token response ends, the Session
\* holds that response's access_token, refresh_token and expires_in and the
\* persisted record equals the Session; no statement of refresh_token()
\* changes state or realm_id.
C7_RefreshReplacesTokens ==
    [][ \A f \in Frames :
          /\ (Moved(f) /\ f.pc \in RefreshPcs) =>
                \A k \in {"state", "realm_id"} :
                    dict_get(oauth_session', k) = dict_get(oauth_session, k)
          /\ (Moved(f) /\ f.pc = "refresh:close") =>
                /\ dict_get(oauth_session', "access_token") = f.tok.access_token
                /\ dict_get(oauth_session', "refresh_token") = f.tok.refresh_token
                /\ dict_get(oauth_session', "token_expiry") = f.tok.expires_in
                /\ file_is_json(oauth_session_json')
                /\ json_load(oauth_session_json') = oauth_session' ]_vars

\* C8: a relay request answered non-200 upstream returns an error body with
\* that status code after exactly one outbound call; no relay handler runs
\* refresh_token() or writes the Session or its file; refresh_token() is
\* entered only by GET /, with a non-empty Session, by a handler whose own
\* company lookup did not return a company name.
C8_NoRetryNoRefreshInRelay ==
    [][ /\ (last'.op \in RelayOps /\ last'.status # 0 /\ last'.status # HTTP_OK) =>
            /\ DOMAIN last'.resp = {"error", "status_code"}
            /\ last'.resp.status_code = last'.status
            /\ last'.calls = <<"api">>
        /\ \A f \in Frames :
            (Moved(f) /\ f.op \in RelayOps) =>
                /\ NoFrameChange
                /\ \A g \in BagToSet(inflight') : g.op \in RelayOps => g.pc \notin RefreshPcs
        /\ \A g \in BagToSet(inflight') :
            (g.pc = "refresh:54" /\ CopiesIn(g, inflight') > CopiesIn(g, inflight)) =>
                /\ g.op = "root"
                /\ dict_truthy(oauth_session)
                /\ Falsy(g.company) ]_vars

\* C9: a handler goes on to call upstream only if an access_token is
\* present, a Session it takes for authenticated holds both tokens, and no
\* outbound call carries a bearer header built from an absent access_token.
C9_AuthenticatedMeansTokens ==
    \A f \in Frames :
        /\ f.pc \in {"bearer", "update", "send", "recv"} =>
              /\ dict_get(oauth_session, "access_token") # PyNone
              /\ dict_get(oauth_session, "refresh_token") # PyNone
        /\ \A i \in 1..Len(f.calls) :
              f.calls[i].target = "api" => f.calls[i].authorization # "Bearer None"

\* the tokens a dict holds
Triple(d) ==
    <<dict_get(d, "access_token"), dict_get(d, "refresh_token"),
      dict_get(d, "token_expiry")>>

\* the tokens of one token response, or those the process started with
WholeTriples ==
    { <<tok.access_token, tok.refresh_token, tok.expires_in>> :
        tok \in {o \in TokenOutcomes : o.ok} }
    \cup { Triple(init_db(d).session) : d \in InitDisks }

\* C10: once every concurrent refresh and /callback has completed, the
\* Session and the persisted record each hold the access_token, refresh_token
\* and token_expiry of one single token response.
C10_NoTornTokens ==
    (restarts = 0 /\ inflight = EmptyBag) =>
        /\ Triple(oauth_session) \in WholeTriples
        /\ file_is_json(oauth_session_json)
        /\ Triple(json_load(oauth_session_json)) \in WholeTriples

====
